---- MODULE Spec2Model ----
(***************************************************************************)
(* Connection lifecycle of packages/react/src/WalletProvider.tsx:          *)
(* the WalletProvider component (the Orchestrator) and the                 *)
(* SolletWalletAdapter class (the Handshake Adapter).                      *)
(*                                                                         *)
(* Granularity.  JavaScript is single threaded: a step of the model is one *)
(* run-to-completion block, that is a caller's invocation, a transport     *)
(* event or a timer, together with the promise continuations (microtasks)  *)
(* it releases and the React effects its state updates schedule.  An       *)
(* async function therefore appears as its synchronous prefix and, if it   *)
(* has to wait for the transport or a timer, a pending call record whose   *)
(* continuation is run by the step that settles it.  The values a callback *)
(* closed over (name, adapter) are kept in the continuation.               *)
(*                                                                         *)
(* Readiness.  The provider seeds `ready` from `adapter.ready`; the model  *)
(* takes for it what the adapter's ready() probe answers at that moment    *)
(* (a provider was configured, or window.sollet is present).               *)
(***************************************************************************)
EXTENDS Integers, Sequences, FiniteSets, Bags, TLC

\* ---------------------------------------------------------------- bounds
MaxOps == 4         \* calls of select/connect/disconnect on the provider
MaxCalls == 3       \* calls made directly on one adapter by its callers
MaxSignOps == 3     \* calls on the provider when signing calls are among them

\* ------------------------------------------------------ program constants
PollBudget == 50    \* count > 50 in the popup poll

Null == "null"
Known == {"a", "b"}             \* the names of the wallets prop
Names == Known \cup {"u"}       \* "u": a name walletsByName does not hold
Insts == 1..(MaxOps + 1)        \* mounting and each select construct at most
                                \* one adapter
Clients == 1..(MaxOps + MaxCalls + 1)

\* config.provider of an adapter: a "string" (a URL, the popup flow), an
\* "object" (an injected provider handed over by the host) or "window"
\* (undefined: the adapter falls back on window.sollet).
Providers == {"string", "object", "window"}

\* The wallets prop of the provider: "a" is given its provider object, "b"
\* relies on window.sollet.
WalletProvider(n) == IF n = "a" THEN "object" ELSE "window"

VARIABLES
    name,           \* useLocalStorage: the selected wallet name or Null
    wallet,         \* useState<Wallet>: the descriptor's name or Null
    adapter,        \* useState<adapter>: an instance of Insts, 0 = undefined
    ready, connecting, disconnecting, connected, autoApprove,
    publicKey,      \* 0 = null, else the instance whose session gave the key
    sub,            \* instances the provider's four listeners are attached to
    autoConnect,    \* the autoConnect prop
    sollet,         \* window.sollet is present
    inst,           \* the adapter instances
    calls,          \* the bag of adapter calls awaiting the transport
    nops,           \* calls made so far by the callers
    last            \* what the last step did (observations for the properties)

vars == <<name, wallet, adapter, ready, connecting, disconnecting, connected,
          autoApprove, publicKey, sub, autoConnect, sollet, inst, calls, nops,
          last>>

\* ------------------------------------------------------------ data shapes
\* What the caller of an adapter call does once the call settles: nothing
\* (a direct caller), the finally of connect() or of the auto-connect effect,
\* the setName(selected) of select(), the finally of disconnect(), the return
\* of a signing call.  fin is
\* the call of the provider's API that this continuation belongs to.
NoCont == [k |-> "none", fin |-> "", sel |-> Null, cname |-> Null, cad |-> 0]
ContSetConnecting(fin) == [NoCont EXCEPT !.k = "setConnecting", !.fin = fin]
ContSetName(sel, fin) == [NoCont EXCEPT !.k = "setName", !.fin = fin, !.sel = sel]
ContReturn(fin) == [NoCont EXCEPT !.k = "return", !.fin = fin]
ContDiscFinally(cname, cad) ==
    [NoCont EXCEPT !.k = "discFinally", !.fin = "disconnect", !.cname = cname,
                   !.cad = cad]

\* A pending call: connect() in phase "load" (awaiting ready() and the
\* import) or "race" (the handshake race on client c, with the poll's count
\* and the popup reference), or disconnect() in the teardown race on c.
Call(kind, i, phase, c, cont) ==
    [kind |-> kind, i |-> i, phase |-> phase, c |-> c, count |-> 0,
     popup |-> "none", cont |-> cont]

FreshInst == [wname |-> Null, provider |-> "window", held |-> FALSE,
              connecting |-> FALSE,
              wallet |-> 0, watch |-> {}, live |-> {},
              approve |-> FALSE]

\* The observations of one step: the call or event that started it, the
\* events the adapters emitted, the adapter calls that settled (with the
\* range lo+1..hi of their events), the calls of the provider's API that
\* returned or threw, the errors handed to onError, the windows opened,
\* whether the selection was persisted, the signing methods invoked on an
\* adapter, for each event delivered to the provider's listeners the
\* emitting instance and the adapter selected at that moment, and what a
\* handshake that settled in this step left registered.
Log(op, arg) == [op |-> op, arg |-> arg, events |-> <<>>, settled |-> <<>>,
                 done |-> <<>>, onError |-> <<>>, opened |-> 0,
                 persisted |-> FALSE, invoked |-> <<>>, heard |-> <<>>,
                 left |-> {}]

\* The whole state as one record, so that a handler is an operator on it.
St == [name |-> name, wallet |-> wallet, adapter |-> adapter, ready |-> ready,
       connecting |-> connecting, disconnecting |-> disconnecting,
       connected |-> connected, autoApprove |-> autoApprove,
       publicKey |-> publicKey, sub |-> sub, autoConnect |-> autoConnect,
       sollet |-> sollet, inst |-> inst, calls |-> calls, nops |-> nops,
       last |-> last]

Commit(s) ==
    /\ name' = s.name /\ wallet' = s.wallet /\ adapter' = s.adapter
    /\ ready' = s.ready /\ connecting' = s.connecting
    /\ disconnecting' = s.disconnecting /\ connected' = s.connected
    /\ autoApprove' = s.autoApprove /\ publicKey' = s.publicKey
    /\ sub' = s.sub /\ autoConnect' = s.autoConnect /\ sollet' = s.sollet
    /\ inst' = s.inst
    /\ calls' = s.calls /\ nops' = s.nops
    /\ last' = s.last

Begin(op, arg) == [St EXCEPT !.last = Log(op, arg)]

\* The current state is s.
Is(s) ==
    /\ name = s.name /\ wallet = s.wallet /\ adapter = s.adapter
    /\ ready = s.ready /\ connecting = s.connecting
    /\ disconnecting = s.disconnecting /\ connected = s.connected
    /\ autoApprove = s.autoApprove /\ publicKey = s.publicKey
    /\ sub = s.sub /\ autoConnect = s.autoConnect /\ sollet = s.sollet
    /\ inst = s.inst
    /\ calls = s.calls /\ nops = s.nops
    /\ last = s.last

AddCall(s, call) == [s EXCEPT !.calls = @ (+) SetToBag({call})]
DropCall(s, call) == [s EXCEPT !.calls = @ (-) SetToBag({call})]

\* ------------------------------------------------- adapter: the getters
AdapterPublicKey(s, i) == IF s.inst[i].wallet # 0 THEN i ELSE 0
\* A transport client held as _wallet is one whose `connect` event fired and
\* whose `disconnect` listener is attached, so its own connected flag is set.
AdapterConnected(s, i) == s.inst[i].wallet # 0
ProviderIsString(s, i) == s.inst[i].provider = "string"
AdapterReady(s, i) == s.inst[i].provider \in {"string", "object"} \/ s.sollet

\* ------------------------------------------- orchestrator: the listeners
Reset(s) ==
    [s EXCEPT !.ready = FALSE, !.connecting = FALSE, !.disconnecting = FALSE,
              !.connected = FALSE, !.autoApprove = FALSE, !.publicKey = 0]

OnReady(s) == [s EXCEPT !.ready = TRUE]

\* onConnect forgetting the key.
OnConnectNoKey(s, i) ==
    [s EXCEPT !.connected = TRUE, !.autoApprove = s.inst[i].approve]

OnConnect(s, i) ==
    [s EXCEPT !.connected = TRUE, !.autoApprove = s.inst[i].approve,
              !.publicKey = AdapterPublicKey(s, i)]

OnDisconnect(s) == Reset(s)

OnError(s, e) == [s EXCEPT !.last.onError = Append(@, e)]

\* EventEmitter.emit: synchronous delivery to the listeners attached to i.
Emit(s, i, ev, arg) ==
    LET s1 == [s EXCEPT !.last.events =
                   Append(@, [i |-> i, ev |-> ev, arg |-> arg])]
        s2 == [s1 EXCEPT !.last.heard =
                   Append(@, [i |-> i, ev |-> ev, cur |-> s.adapter])]
    IN  IF i \notin s1.sub THEN s1
        ELSE CASE ev = "ready" -> OnReady(s2)
               [] ev = "connect" -> OnConnect(s2, i)
               [] ev = "disconnect" -> OnDisconnect(s2)
               [] OTHER -> OnError(s2, arg)

Done(s, fin, res) ==
    IF fin = "" THEN s
    ELSE [s EXCEPT !.last.done = Append(@, [op |-> fin, res |-> res])]

Settled(s, kind, i, res, lo, ticks) ==
    [s EXCEPT !.last.settled =
        Append(@, [kind |-> kind, i |-> i, res |-> res, lo |-> lo,
                   hi |-> Len(s.last.events), ticks |-> ticks])]

\* --------------------------------------- orchestrator: the name effects
\* wallet.adapter(): the next instance not yet constructed.
NewInst(s) == CHOOSE j \in Insts :
    /\ s.inst[j].wname = Null
    /\ \A x \in Insts : s.inst[x].wname = Null => j <= x

\* The name effect without its reset().
NameEffectNoReset(s) ==
    LET w  == IF s.name \in Known THEN s.name ELSE Null
        j  == IF w # Null THEN NewInst(s) ELSE 0
        s2 == IF j = 0 THEN s
              ELSE [s EXCEPT !.inst[j].wname = w,
                             !.inst[j].provider = WalletProvider(w)]
    IN  [s2 EXCEPT !.wallet = w, !.adapter = j,
                   !.ready = IF j # 0 THEN AdapterReady(s2, j) ELSE FALSE,
                   !.sub = IF j # 0 THEN {j} ELSE {}]

\* The listener effect never running its cleanup.
NameEffectKeepsListeners(s) ==
    LET s1 == Reset(s)
        w  == IF s1.name \in Known THEN s1.name ELSE Null
        j  == IF w # Null THEN NewInst(s1) ELSE 0
        s2 == IF j = 0 THEN s1
              ELSE [s1 EXCEPT !.inst[j].wname = w,
                              !.inst[j].provider = WalletProvider(w)]
    IN  [s2 EXCEPT !.wallet = w, !.adapter = j,
                   !.ready = IF j # 0 THEN AdapterReady(s2, j) ELSE FALSE,
                   !.sub = IF j # 0 THEN @ \cup {j} ELSE @]

\* "Reset state and set the wallet, adapter, and ready state when the name
\* changes", followed by the listener effect that the new adapter triggers.
NameEffect(s) ==
    LET s1 == Reset(s)
        w  == IF s1.name \in Known THEN s1.name ELSE Null
        j  == IF w # Null THEN NewInst(s1) ELSE 0
        s2 == IF j = 0 THEN s1
              ELSE [s1 EXCEPT !.inst[j].wname = w,
                              !.inst[j].provider = WalletProvider(w)]
    IN  [s2 EXCEPT !.wallet = w, !.adapter = j,
                   !.ready = IF j # 0 THEN AdapterReady(s2, j) ELSE FALSE,
                   !.sub = IF j # 0 THEN {j} ELSE {}]

SetName(s, sel) ==
    LET s1 == [s EXCEPT !.last.persisted = TRUE]
    IN  IF sel = s1.name THEN s1 ELSE NameEffect([s1 EXCEPT !.name = sel])

\* ------------------------------------------------ adapter: disconnect()
RECURSIVE RunCont(_, _, _)

\* disconnect() keeping _wallet and its listener until the race is over.
AdapterDisconnectKeepsSession(s, i, cont) ==
    LET lo == Len(s.last.events)
        c  == s.inst[i].wallet
    IN  IF c = 0
        THEN RunCont(Settled(Emit(s, i, "disconnect", ""),
                             "disconnect", i, "nosession", lo, 0), cont, "ok")
        ELSE AddCall(s, Call("disconnect", i, "race", c, cont))

\* The synchronous prefix of SolletWalletAdapter.disconnect: without a live
\* session it emits `disconnect` and returns, otherwise it detaches the
\* session and waits for the teardown race.
AdapterDisconnect(s, i, cont) ==
    LET lo == Len(s.last.events)
        c  == s.inst[i].wallet
    IN  IF c = 0
        THEN RunCont(Settled(Emit(s, i, "disconnect", ""),
                             "disconnect", i, "nosession", lo, 0), cont, "ok")
        ELSE AddCall([s EXCEPT !.inst[i].watch = @ \ {c},
                               !.inst[i].live = @ \ {c},
                               !.inst[i].wallet = 0],
                     Call("disconnect", i, "race", c, cont))

\* select() without its `name === selected` guard.
SelectWithNoGuard(s, cname, cad, sel, fin) ==
    IF cad # 0 THEN AdapterDisconnect(s, cad, ContSetName(sel, fin))
    ELSE Done(SetName(s, sel), fin, "ok")

\* select() as the callback that closed over name = cname, adapter = cad,
\* called by select itself or by disconnect (fin).
SelectWith(s, cname, cad, sel, fin) ==
    IF cname = sel THEN Done(s, fin, "noop")
    ELSE IF cad # 0 THEN AdapterDisconnect(s, cad, ContSetName(sel, fin))
    ELSE Done(SetName(s, sel), fin, "ok")

\* The finally of disconnect() without its select(null).
RunContKeepsSelection(s, cont, res) ==
    CASE cont.k = "setConnecting" ->
            Done([s EXCEPT !.connecting = FALSE], cont.fin,
                 IF cont.fin = "auto" THEN "ok" ELSE res)
      [] cont.k = "setName" -> Done(SetName(s, cont.sel), cont.fin, "ok")
      [] cont.k = "return" -> Done(s, cont.fin, res)
      [] cont.k = "discFinally" ->
            Done([s EXCEPT !.disconnecting = FALSE], cont.fin, "ok")
      [] OTHER -> s

\* What the caller of a settled adapter call does next; res is "ok" or the
\* error the call threw.
RunCont(s, cont, res) ==
    CASE cont.k = "setConnecting" ->
            Done([s EXCEPT !.connecting = FALSE], cont.fin,
                 IF cont.fin = "auto" THEN "ok" ELSE res)
      [] cont.k = "setName" -> Done(SetName(s, cont.sel), cont.fin, "ok")
      [] cont.k = "return" -> Done(s, cont.fin, res)
      [] cont.k = "discFinally" ->
            SelectWith([s EXCEPT !.disconnecting = FALSE],
                       cont.cname, cont.cad, Null, cont.fin)
      [] OTHER -> s

\* disconnect() returning from its catch, before emit('disconnect').
DisconnectSettleReturnsInCatch(s, call, outcome) ==
    LET s1 == DropCall(s, call)
        lo == Len(s1.last.events)
        s2 == IF outcome = "rejected"
              THEN Emit(s1, call.i, "error", "DisconnectionError")
              ELSE Emit(s1, call.i, "disconnect", "")
    IN  RunCont(Settled(s2, "disconnect", call.i, outcome, lo, 0), call.cont,
                "ok")

\* The teardown race of a call is won: catch, finally, emit('disconnect').
DisconnectSettle(s, call, outcome) ==
    LET s1 == DropCall(s, call)
        lo == Len(s1.last.events)
        s2 == IF outcome = "rejected"
              THEN Emit(s1, call.i, "error", "DisconnectionError") ELSE s1
        s3 == Emit(s2, call.i, "disconnect", "")
    IN  RunCont(Settled(s3, "disconnect", call.i, outcome, lo, 0), call.cont,
                "ok")

\* --------------------------------------------------- adapter: connect()
\* The synchronous prefix: the guard, _connecting = true, await this.ready().
AdapterConnect(s, i, cont) ==
    LET lo == Len(s.last.events)
    IN  IF AdapterConnected(s, i) \/ s.inst[i].connecting
        THEN RunCont(Settled([s EXCEPT !.inst[i].connecting = FALSE],
                             "connect", i, "noop", lo, 0), cont, "ok")
        ELSE AddCall([s EXCEPT !.inst[i].connecting = TRUE],
                     Call("connect", i, "load", 0, cont))

\* What the handshake race registers on entry: the `connect` listener, the
\* handleDisconnect override, and the 100ms interval (string provider) or
\* the 10s timeout (injected provider). A call still loading has nothing.
Registered(s, call) ==
    IF call.phase # "race" THEN {}
    ELSE {"listener", "hook"} \cup
         (IF ProviderIsString(s, call.i) THEN {"interval"} ELSE {"timeout"})

\* What the branch that settles the race takes down itself: the `connect`
\* closure clears the timeout and detaches itself, the handleDisconnect
\* override and the catch of wallet.connect() detach the listener, the
\* interval's callback only rejects, and the timeout that fired is gone.
BranchClears(branch) ==
    CASE branch = "transport.connect" -> {"timeout", "listener"}
      [] branch = "handleDisconnect" -> {"listener"}
      [] branch = "transport.reject" -> {"listener"}
      [] branch = "timeout" -> {"timeout"}
      [] OTHER -> {}

\* finally: handleDisconnect restored, clearInterval(interval).
FinallyClears == {"hook", "interval"}

\* The registrations of a handshake still in place once it has settled in
\* the step that s.last.op names.
Leftover(s, call) ==
    Registered(s, call) \ (BranchClears(s.last.op) \cup FinallyClears)

\* The catch of connect() rethrowing without emit('error', error).
ConnectThrowSilent(s, call, err, ticks) ==
    LET s1 == DropCall(s, call)
        lo == Len(s1.last.events)
        s3 == [s1 EXCEPT !.inst[call.i].connecting = FALSE]
    IN  RunCont(Settled(s3, "connect", call.i, err, lo, ticks), call.cont, err)

\* catch: emit('error', error); throw; finally: _connecting = false.
ConnectThrow(s, call, err, ticks) ==
    LET s1 == DropCall(s, call)
        lo == Len(s1.last.events)
        s2 == Emit(s1, call.i, "error", err)
        s3 == [s2 EXCEPT !.inst[call.i].connecting = FALSE,
                         !.last.left = @ \cup Leftover(s, call)]
    IN  RunCont(Settled(s3, "connect", call.i, err, lo, ticks), call.cont, err)

\* The success path emitting `connect` before it keeps the session.
ConnectSucceedEmitsFirst(s, call, approve) ==
    LET i  == call.i
        s1 == DropCall(s, call)
        lo == Len(s1.last.events)
        s2 == Emit(s1, i, "connect", "")
        s3 == [s2 EXCEPT !.inst[i].watch = @ \cup {call.c},
                         !.inst[i].live = @ \cup {call.c},
                         !.inst[i].wallet = call.c,
                         !.inst[i].approve = approve,
                         !.inst[i].connecting = FALSE]
    IN  RunCont(Settled(s3, "connect", i, "ok", lo, call.count), call.cont,
                "ok")

\* The transport's `connect` event won the race.
ConnectSucceed(s, call, approve) ==
    LET i  == call.i
        s1 == DropCall(s, call)
        lo == Len(s1.last.events)
        s2 == [s1 EXCEPT !.inst[i].watch = @ \cup {call.c},
                         !.inst[i].live = @ \cup {call.c},
                         !.inst[i].wallet = call.c,
                         !.inst[i].approve = approve]
        s3 == Emit(s2, i, "connect", "")
        s4 == [s3 EXCEPT !.inst[i].connecting = FALSE,
                         !.last.left = @ \cup Leftover(s, call)]
    IN  RunCont(Settled(s4, "connect", i, "ok", lo, call.count), call.cont,
                "ok")

\* new SolWalletAdapter.default(provider, network): a client the adapter
\* holds no reference to yet, named by the least number not in use.
ClientsInUse(s, i) ==
    {call.c : call \in {x \in DOMAIN s.calls : x.i = i}}
        \cup {s.inst[i].wallet} \cup s.inst[i].watch \cup s.inst[i].live
NewClient(s, i) ==
    CHOOSE c \in Clients :
        /\ c \notin ClientsInUse(s, i)
        /\ \A d \in 1..(c - 1) : d \in ClientsInUse(s, i)

\* await this.ready(), the lazy import and the construction of the client.
ConnectLoaded(s, call, outcome) ==
    IF outcome = "ok"
    THEN AddCall(DropCall(s, call),
                 [call EXCEPT !.phase = "race", !.c = NewClient(s, call.i)])
    ELSE ConnectThrow(s, call, outcome, 0)

\* The poll giving up on a missing popup at its first firing.
PollTickedNoBudget(s, call) ==
    LET counted == AddCall(DropCall(s, call),
                       [call EXCEPT !.count = IF @ > PollBudget THEN @ ELSE @ + 1])
    IN  IF call.popup # "none"
        THEN IF call.popup = "closed"
             THEN ConnectThrow(s, call, "WindowClosedError", call.count + 1)
             ELSE counted
        ELSE ConnectThrow(s, call, "WindowBlockedError", call.count + 1)

\* One firing of the 100ms interval of a popup handshake.
PollTicked(s, call) ==
    LET counted == AddCall(DropCall(s, call),
                       [call EXCEPT !.count = IF @ > PollBudget THEN @ ELSE @ + 1])
    IN  IF call.popup # "none"
        THEN IF call.popup = "closed"
             THEN ConnectThrow(s, call, "WindowClosedError", call.count + 1)
             ELSE counted
        ELSE IF call.count > PollBudget
             THEN ConnectThrow(s, call, "WindowBlockedError", call.count + 1)
             ELSE counted

\* _disconnected without its `if (wallet)`.
DisconnectedNoGuard(s, i) ==
    LET c  == s.inst[i].wallet
        s1 == [s EXCEPT !.inst[i].watch = @ \ {c}, !.inst[i].wallet = 0]
    IN  Emit(Emit(s1, i, "error", "DisconnectedError"), i, "disconnect", "")

\* _disconnected, the listener attached to a live client.
Disconnected(s, i) ==
    LET c  == s.inst[i].wallet
        s1 == [s EXCEPT !.inst[i].watch = @ \ {c}, !.inst[i].wallet = 0]
    IN  IF c = 0 THEN s
        ELSE Emit(Emit(s1, i, "error", "DisconnectedError"),
                  i, "disconnect", "")

\* ------------------------------------- orchestrator: auto-connect effect
AutoConnectEffect(s) ==
    IF s.autoConnect /\ s.adapter # 0 /\ s.ready
    THEN AdapterConnect([s EXCEPT !.connecting = TRUE], s.adapter,
                        ContSetConnecting("auto"))
    ELSE s

\* An adapter that nothing refers to any more (it is not the adapter of the
\* provider, no listener of the provider is attached to it, no pending call
\* or continuation names it, no caller holds it) can neither act on the
\* provider nor be observed by it: its instance number is free again.
Referenced(s, i) ==
    \/ s.adapter = i \/ i \in s.sub \/ s.publicKey = i \/ s.inst[i].held
    \/ \E call \in DOMAIN s.calls : call.i = i \/ call.cont.cad = i
Collect(s) ==
    [s EXCEPT !.inst = [i \in Insts |->
        IF Referenced(s, i) THEN s.inst[i] ELSE FreshInst]]

\* The effects a step leaves pending run before anything else does.
Finish(s) ==
    Collect(IF <<s.adapter, s.ready>> # <<adapter, ready>>
            THEN AutoConnectEffect(s) ELSE s)

\* ------------------------------------------------- orchestrator: the API
SelectCall(s, selected) ==
    SelectWith(s, s.name, s.adapter, selected, "select")

\* connect() guarding on `connecting` alone.
ConnectCallGuardConnecting(s) ==
    IF s.connecting
    THEN Done(s, "connect", "busy")
    ELSE IF s.wallet = Null \/ s.adapter = 0
    THEN Done(OnError(s, "NotSelectedError"), "connect", "NotSelectedError")
    ELSE IF ~s.ready
    THEN Done(OnError([s EXCEPT !.last.opened = @ + 1], "NotReadyError"),
              "connect", "NotReadyError")
    ELSE AdapterConnect([s EXCEPT !.connecting = TRUE], s.adapter,
                        ContSetConnecting("connect"))

\* connect() setting `connecting` before it tests `ready`.
ConnectCallFlagFirst(s) ==
    IF s.connecting \/ s.disconnecting \/ s.connected
    THEN Done(s, "connect", "busy")
    ELSE IF s.wallet = Null \/ s.adapter = 0
    THEN Done(OnError(s, "NotSelectedError"), "connect", "NotSelectedError")
    ELSE IF ~s.ready
    THEN Done(OnError([s EXCEPT !.connecting = TRUE, !.last.opened = @ + 1],
                      "NotReadyError"),
              "connect", "NotReadyError")
    ELSE AdapterConnect([s EXCEPT !.connecting = TRUE], s.adapter,
                        ContSetConnecting("connect"))

ConnectCall(s) ==
    IF s.connecting \/ s.disconnecting \/ s.connected
    THEN Done(s, "connect", "busy")
    ELSE IF s.wallet = Null \/ s.adapter = 0
    THEN Done(OnError(s, "NotSelectedError"), "connect", "NotSelectedError")
    ELSE IF ~s.ready
    THEN Done(OnError([s EXCEPT !.last.opened = @ + 1], "NotReadyError"),
              "connect", "NotReadyError")
    ELSE AdapterConnect([s EXCEPT !.connecting = TRUE], s.adapter,
                        ContSetConnecting("connect"))

DisconnectCall(s) ==
    IF s.disconnecting THEN Done(s, "disconnect", "busy")
    ELSE IF s.adapter = 0
    THEN SelectWith(s, s.name, s.adapter, Null, "disconnect")
    ELSE AdapterDisconnect([s EXCEPT !.disconnecting = TRUE], s.adapter,
                           ContDiscFinally(s.name, s.adapter))

\* --------------------------------------------------- the signing calls
Methods == {"sendTransaction", "signTransaction", "signAllTransactions",
            "signMessage"}
SignError(m) ==
    IF m = "signMessage" THEN "SignMessageError" ELSE "SignTransactionError"

\* The adapter's method m: without a live session it emits `error` and
\* throws NotConnectedError, otherwise it awaits the transport.
AdapterSign(s, i, m) ==
    LET s1 == [s EXCEPT !.last.invoked = Append(@, [i |-> i, m |-> m])]
        c  == s1.inst[i].wallet
    IN  IF c = 0
        THEN Done(Emit(s1, i, "error", "NotConnectedError"), m,
                  "NotConnectedError")
        ELSE AddCall(s1, Call("sign", i, "race", c, ContReturn(m)))

\* The transport answers a signing call: the result, or an error that the
\* adapter wraps, emits and rethrows.
SignSettle(s, call, ok) ==
    LET s1 == DropCall(s, call)
        m  == call.cont.fin
    IN  IF ok THEN RunCont(s1, call.cont, "ok")
        ELSE RunCont(Emit(s1, call.i, "error", SignError(m)), call.cont,
                     SignError(m))

\* A signing call that hands every call over to the adapter.
SignCallNoGuard(s, m) ==
    IF s.adapter = 0
    THEN Done(OnError(s, "NotSelectedError"), m, "NotSelectedError")
    ELSE AdapterSign(s, s.adapter, m)

\* sendTransaction, signTransaction, signAllTransactions, signMessage of the
\* provider (the last three exist only while an adapter is set).
SignCall(s, m) ==
    IF s.adapter = 0
    THEN Done(OnError(s, "NotSelectedError"), m, "NotSelectedError")
    ELSE IF ~s.connected
    THEN Done(OnError(s, "NotConnectedError"), m, "NotConnectedError")
    ELSE AdapterSign(s, s.adapter, m)

\* ========================================================== the actions
Racing(k, kind) == k.kind = kind /\ k.phase = "race"
PopupFlow(k) == ProviderIsString(St, k.i)

Select(n) ==
    /\ nops < MaxOps
    /\ Commit(Finish([SelectCall(Begin("select", n), n)
                        EXCEPT !.nops = @ + 1]))

Connect ==
    /\ nops < MaxOps
    /\ Commit(Finish([ConnectCall(Begin("connect", Null))
                        EXCEPT !.nops = @ + 1]))

Disconnect ==
    /\ nops < MaxOps
    /\ Commit(Finish([DisconnectCall(Begin("disconnect", Null))
                        EXCEPT !.nops = @ + 1]))

DirectConnect(i) ==
    /\ nops < MaxCalls /\ inst[i].wname # Null
    /\ Commit(Finish([AdapterConnect(Begin("adapter.connect", Null), i, NoCont)
                        EXCEPT !.nops = @ + 1]))

DirectDisconnect(i) ==
    /\ nops < MaxCalls /\ inst[i].wname # Null
    /\ Commit(Finish([AdapterDisconnect(Begin("adapter.disconnect", Null), i,
                                        NoCont)
                        EXCEPT !.nops = @ + 1]))

Sign(m) ==
    /\ nops < MaxSignOps
    /\ m = "sendTransaction" \/ adapter # 0
    /\ Commit(Finish([SignCall(Begin(m, Null), m) EXCEPT !.nops = @ + 1]))

TransportSigned(k) ==
    /\ k.kind = "sign"
    /\ \E ok \in BOOLEAN :
        Commit(Finish(SignSettle(Begin("transport.sign", Null), k, ok)))

\* The page finishes loading with window.sollet injected; the adapters that
\* were waiting for it announce `ready`.
RECURSIVE EmitReady(_, _)
EmitReady(s, is) ==
    IF is = {} THEN s
    ELSE LET i == CHOOSE x \in is : \A y \in is : x <= y
         IN  EmitReady(Emit(s, i, "ready", ""), is \ {i})

PageLoad ==
    /\ ~sollet
    /\ Commit(Finish(EmitReady([Begin("load", Null) EXCEPT !.sollet = TRUE],
           {i \in Insts : inst[i].wname # Null /\ inst[i].provider = "window"})))

ConnectLoad(k) ==
    /\ k.kind = "connect" /\ k.phase = "load"
    /\ \E outcome \in {"ok", "NotReadyError", "LoadError", "ConfigError"} :
        /\ (outcome = "NotReadyError") <=> ~AdapterReady(St, k.i)
        /\ Commit(Finish(ConnectLoaded(Begin("import", Null), k, outcome)))

TransportConnect(k) ==
    /\ Racing(k, "connect")
    /\ \E approve \in BOOLEAN :
        Commit(Finish(ConnectSucceed(Begin("transport.connect", Null), k,
                                     approve)))

TransportReject(k) ==
    /\ Racing(k, "connect")
    /\ Commit(Finish(ConnectThrow(Begin("transport.reject", Null), k,
                                  "ConnectionError", k.count)))

HandshakeHandleDisconnect(k) ==
    /\ Racing(k, "connect")
    /\ Commit(Finish(ConnectThrow(Begin("handleDisconnect", Null), k,
                                  "WindowClosedError", k.count)))

PopupOpen(k) ==
    /\ Racing(k, "connect") /\ PopupFlow(k) /\ k.popup = "none"
    /\ Commit(AddCall(DropCall(Begin("popup.open", Null), k),
                      [k EXCEPT !.popup = "open"]))

PopupClose(k) ==
    /\ Racing(k, "connect") /\ PopupFlow(k) /\ k.popup = "open"
    /\ Commit(AddCall(DropCall(Begin("popup.close", Null), k),
                      [k EXCEPT !.popup = "closed"]))

PollTick(k) ==
    /\ Racing(k, "connect") /\ PopupFlow(k)
    /\ Commit(Finish(PollTicked(Begin("tick", Null), k)))

ConnectTimeout(k) ==
    /\ Racing(k, "connect") /\ ~PopupFlow(k)
    /\ Commit(Finish(ConnectThrow(Begin("timeout", Null), k, "TimeoutError", 0)))

\* A teardown race without its 250ms timer.
NoGraceTimeout(k) == Racing(k, "disconnect") /\ FALSE /\ UNCHANGED vars

GraceTimeout(k) ==
    /\ Racing(k, "disconnect")
    /\ Commit(Finish(DisconnectSettle(Begin("grace", Null), k, "timer")))

TransportDisconnected(k) ==
    /\ Racing(k, "disconnect")
    /\ \E outcome \in {"resolved", "benign", "callback", "rejected"} :
        Commit(Finish(DisconnectSettle(Begin("transport.disconnect", Null), k,
                                       outcome)))

UnexpectedDisconnect(i) ==
    /\ \E c \in inst[i].watch \cap inst[i].live :
        Commit(Finish(Disconnected(
            [Begin("transport.lost", Null) EXCEPT !.inst[i].live = @ \ {c}], i)))

\* ==================================================== the specifications
InitCommon ==
    /\ name = Null /\ wallet = Null /\ adapter = 0
    /\ ready = FALSE /\ connecting = FALSE /\ disconnecting = FALSE
    /\ connected = FALSE /\ autoApprove = FALSE /\ publicKey = 0
    /\ sub = {} /\ calls = EmptyBag /\ nops = 0
    /\ last = Log("init", Null)

\* The provider right after mounting with an empty store.
Init ==
    /\ InitCommon
    /\ autoConnect \in BOOLEAN /\ sollet \in BOOLEAN
    /\ inst = [i \in Insts |-> FreshInst]

Transport ==
    \/ \E k \in DOMAIN calls :
        \/ ConnectLoad(k) \/ TransportConnect(k) \/ TransportReject(k)
        \/ HandshakeHandleDisconnect(k) \/ ConnectTimeout(k)
        \/ GraceTimeout(k) \/ TransportDisconnected(k)
    \/ \E i \in Insts : UnexpectedDisconnect(i)
    \/ PageLoad

Next ==
    \/ \E n \in Names \cup {Null} : Select(n)
    \/ Connect
    \/ Disconnect
    \/ Transport

Spec == Init /\ [][Next]_vars

\* The provider with its signing calls.
NextSign ==
    \/ nops < MaxSignOps /\ \E n \in Names \cup {Null} : Select(n)
    \/ nops < MaxSignOps /\ Connect
    \/ nops < MaxSignOps /\ Disconnect
    \/ \E m \in Methods : Sign(m)
    \/ \E k \in DOMAIN calls : TransportSigned(k)
    \/ Transport

SpecSign == Init /\ [][NextSign]_vars

\* The provider mounted over a store that holds the name n, with the
\* autoConnect prop ac and window.sollet present or not: the initial values
\* of the hooks, then the name effect, the listener effect and the
\* auto-connect effect of the first render.
Mounted(n, ac, so) ==
    LET s0 == [name |-> n, wallet |-> Null, adapter |-> 0, ready |-> FALSE,
               connecting |-> FALSE, disconnecting |-> FALSE,
               connected |-> FALSE, autoApprove |-> FALSE, publicKey |-> 0,
               sub |-> {}, autoConnect |-> ac, sollet |-> so,
               inst |-> [i \in Insts |-> FreshInst], calls |-> EmptyBag,
               nops |-> 0, last |-> Log("init", n)]
    IN  Collect(AutoConnectEffect(NameEffect(s0)))

\* A page reload: the store holds "a", autoConnect is on and the extension
\* is present or still to be injected; the user then switches to "b",
\* clears the selection or calls connect().
InitRestored == \E so \in BOOLEAN : Is(Mounted("a", TRUE, so))

NextRestored ==
    \/ \E n \in {"b", Null} : Select(n)
    \/ Connect
    \/ Transport

SpecRestored == InitRestored /\ [][NextRestored]_vars

\* One adapter with an injected provider, driven directly and concurrently
\* by its callers, with no provider component attached.
InitAdapter ==
    /\ InitCommon
    /\ autoConnect = FALSE /\ sollet \in BOOLEAN
    /\ \E p \in {"object", "window"} :
        inst = [i \in Insts |->
                   IF i = 1 THEN [FreshInst EXCEPT !.wname = "a", !.provider = p,
                                                   !.held = TRUE]
                   ELSE FreshInst]

NextAdapter ==
    \/ DirectConnect(1)
    \/ DirectDisconnect(1)
    \/ Transport

SpecAdapter == InitAdapter /\ [][NextAdapter]_vars

\* One adapter with a string provider (the popup flow), its callers making
\* one call at a time.
InitPopup ==
    /\ InitCommon
    /\ autoConnect = FALSE /\ sollet = FALSE
    /\ inst = [i \in Insts |->
                 IF i = 1 THEN [FreshInst EXCEPT !.wname = "a", !.held = TRUE,
                                                 !.provider = "string"]
                 ELSE FreshInst]

NoPending == calls = EmptyBag

NextPopup ==
    \/ NoPending /\ DirectConnect(1)
    \/ NoPending /\ DirectDisconnect(1)
    \/ \E k \in DOMAIN calls :
        \/ ConnectLoad(k) \/ TransportConnect(k) \/ TransportReject(k)
        \/ HandshakeHandleDisconnect(k) \/ PopupOpen(k) \/ PopupClose(k)
        \/ PollTick(k) \/ GraceTimeout(k) \/ TransportDisconnected(k)
    \/ UnexpectedDisconnect(1)

SpecPopup == InitPopup /\ [][NextPopup]_vars

\* Timers fire, and the awaits of ready() and of the import return; the
\* transport is under no obligation to signal anything.
Fairness ==
    /\ WF_vars(\E k \in DOMAIN calls : PollTick(k))
    /\ WF_vars(\E k \in DOMAIN calls : ConnectTimeout(k))
    /\ WF_vars(\E k \in DOMAIN calls : GraceTimeout(k))
    /\ WF_vars(\E k \in DOMAIN calls : ConnectLoad(k))

FairAdapter == SpecAdapter /\ Fairness
\* The 250ms timer of a teardown fires; nothing else is promised.
FairTeardown ==
    SpecAdapter /\ WF_vars(\E k \in DOMAIN calls : GraceTimeout(k))
FairPopup == SpecPopup /\ Fairness

\* ========================================================= the properties
PendingCalls(kind) == {k \in DOMAIN calls : k.kind = kind}
DoneOps == {last.done[x] : x \in DOMAIN last.done}
SettledCalls(kind) ==
    {r \in {last.settled[x] : x \in DOMAIN last.settled} : r.kind = kind}
EventsOf(r) == SubSeq(last.events, r.lo + 1, r.hi)

\* C1: the provider's flags `connecting` and `disconnecting` are never both
\* true, whatever the interleaving of select, connect, disconnect, the
\* auto-connect effect and the adapters' events.
C1_FlagsExclusive == ~(connecting /\ disconnecting)

\* disconnect() was called while a connect() was pending: the handshake is
\* still under way after the step of disconnect().
C1_Witness ==
    /\ last.op = "disconnect"
    /\ \E d \in DoneOps : d.op = "disconnect" /\ d.res = "ok"
    /\ \E k \in PendingCalls("connect") : k.cont.fin = "connect"

\* C2: whenever `connected` is true an adapter is set and publicKey is not
\* null.
C2_ConnectedHasKey == connected => (adapter # 0 /\ publicKey # 0)

C2_Witness == connected /\ adapter # 0 /\ publicKey = adapter

\* C3: connect() calls on one adapter never have two handshakes pending, and
\* never two transport clients in existence (racing or live), for that
\* adapter.
SessionsOf(i) ==
    Cardinality({k \in PendingCalls("connect") : k.i = i /\ k.phase = "race"})
        + (IF inst[i].wallet # 0 THEN 1 ELSE 0)
C3_SingleSession ==
    \A i \in Insts :
        /\ Cardinality({k \in PendingCalls("connect") : k.i = i}) <= 1
        /\ SessionsOf(i) <= 1

\* C4: every connect() call settles and the adapter's `connecting` returns
\* to false, even if the transport never signals (timers fire).
C4_ConnectSettles ==
    (PendingCalls("connect") # {})
        ~> (PendingCalls("connect") = {} /\ ~inst[1].connecting)

\* C5: in the popup flow a handshake whose popup reference never appears is
\* rejected with WindowBlockedError, by a firing of the poll that comes
\* after the budget of PollBudget firings and no later than two firings
\* past it, and it is rejected eventually.
NoPopupRacing == {k \in PendingCalls("connect") : k.phase = "race" /\ k.popup = "none"}
C5_BlockedAfterBudget ==
    /\ [](\A r \in SettledCalls("connect") :
            r.res = "WindowBlockedError" =>
                /\ last.op = "tick"
                /\ r.ticks > PollBudget /\ r.ticks <= PollBudget + 2)
    /\ [](\A k \in NoPopupRacing : k.count <= PollBudget + 1)
    /\ ((NoPopupRacing # {}) ~> (NoPopupRacing = {}))

C5_Witness ==
    \E r \in SettledCalls("connect") :
        r.res = "WindowBlockedError" /\ r.ticks = PollBudget + 2

\* C6: a disconnect() that found a live session settles, emitting
\* `disconnect`, when the 250ms timer fires at the latest, whatever the
\* transport does: the firing of the timer settles the call, a call leaves
\* the teardown race only by settling with `disconnect` as its last event,
\* and the teardown races that are pending all come to an end.
SettledEmitting(r) ==
    /\ r.hi > r.lo
    /\ last.events[r.hi] = [i |-> r.i, ev |-> "disconnect", arg |-> ""]
C6_DisconnectSettles ==
    /\ [](last.op = "grace" =>
            \E r \in SettledCalls("disconnect") :
                r.res = "timer" /\ SettledEmitting(r))
    /\ [][\A k \in PendingCalls("disconnect") :
            k \notin DOMAIN calls' =>
                (\E r \in SettledCalls("disconnect") :
                    r.i = k.i /\ r.res # "nosession" /\ SettledEmitting(r))']_vars
    /\ (PendingCalls("disconnect") # {}) ~> (PendingCalls("disconnect") = {})

C6_Witness ==
    /\ last.op = "grace"
    /\ \E r \in SettledCalls("disconnect") : r.res = "timer" /\ SettledEmitting(r)

\* C7: every adapter disconnect() call emits `disconnect` exactly once, as
\* its last event: alone on the paths that succeed (no session, timer,
\* promise, benign rejection, callback), after error(DisconnectionError)
\* when the teardown is rejected.
C7_DisconnectEmitsOnce ==
    \A r \in SettledCalls("disconnect") :
        /\ r.res \in {"nosession", "timer", "resolved", "benign", "callback",
                       "rejected"}
        /\ EventsOf(r) =
              IF r.res = "rejected"
              THEN <<[i |-> r.i, ev |-> "error", arg |-> "DisconnectionError"],
                     [i |-> r.i, ev |-> "disconnect", arg |-> ""]>>
              ELSE <<[i |-> r.i, ev |-> "disconnect", arg |-> ""]>>

C7_Witness ==
    \E r \in SettledCalls("disconnect") : r.res = "rejected" /\ r.hi = r.lo + 2

C9_SelectSameNoop ==
    [][(last'.op = "select" /\ last'.arg = name) =>
        /\ UNCHANGED <<name, wallet, adapter, ready, connecting, disconnecting,
                       connected, autoApprove, publicKey, sub, inst, calls>>
        /\ last'.events = <<>> /\ last'.settled = <<>>
        /\ ~last'.persisted]_vars

\* select of the current name while connected.
C9_Witness ==
    /\ last.op = "select" /\ last.arg = name /\ ~last.persisted
    /\ connected /\ name \in Known

\* C10: a change of the selected name resets ready, connecting,
\* disconnecting, connected, autoApprove and publicKey before the new
\* adapter is installed (after which only `ready`, seeded from a new
\* adapter, and `connecting`, set by the auto-connect effect, may be true),
\* and connected / publicKey never stem from another adapter than the
\* current one.
C10_ResetOnChange ==
    /\ [](publicKey \in {0, adapter} /\ (connected => publicKey = adapter))
    /\ [][name' # name =>
            /\ ~connected' /\ publicKey' = 0 /\ ~autoApprove'
            /\ ~disconnecting'
            /\ ready' => adapter' # 0
            /\ connecting' => (autoConnect /\ ready')]_vars

\* the name changes while the previous adapter is connected.
C10_Witness ==
    /\ name = "b" /\ adapter # 0 /\ ~connected /\ publicKey = 0
    /\ \E r \in SettledCalls("disconnect") :
          r.i # adapter /\ r.res # "nosession"

\* C11: a signing call of the provider made while `connected` is false
\* invokes no adapter method: without an adapter sendTransaction throws
\* NotSelectedError, with an adapter and connected = false each of the four
\* throws NotConnectedError, and in both cases onError received that error;
\* whenever an adapter method is invoked, it is the selected adapter's and
\* `connected` was true.
C11_SignGuards ==
    [][last'.op \in Methods =>
        /\ adapter = 0 =>
              /\ last'.done = <<[op |-> last'.op, res |-> "NotSelectedError"]>>
              /\ last'.onError = <<"NotSelectedError">>
        /\ (adapter # 0 /\ ~connected) =>
              /\ last'.done = <<[op |-> last'.op, res |-> "NotConnectedError"]>>
              /\ last'.onError = <<"NotConnectedError">>
        /\ ~connected => (last'.invoked = <<>> /\ last'.events = <<>>)
        /\ last'.invoked # <<>> =>
              /\ connected
              /\ last'.invoked = <<[i |-> adapter, m |-> last'.op]>>]_vars

\* signMessage refused while a handshake of the selected adapter is pending.
C11_Witness ==
    /\ last.op = "signMessage" /\ adapter # 0 /\ ~connected
    /\ last.done = <<[op |-> "signMessage", res |-> "NotConnectedError"]>>
    /\ last.invoked = <<>>
    /\ \E k \in PendingCalls("connect") : k.i = adapter

\* A step that is a connect() of the provider refused with err: onError got
\* err, n windows were opened, no adapter was called or heard, and no field
\* of the provider changed.
ConnectRefused(err, n) ==
    /\ last'.done = <<[op |-> "connect", res |-> err]>>
    /\ last'.onError = <<err>> /\ last'.opened = n
    /\ last'.events = <<>> /\ last'.settled = <<>>
    /\ UNCHANGED <<name, wallet, adapter, ready, connecting, disconnecting,
                   connected, autoApprove, publicKey, sub, inst, calls>>

C13_ConnectScenario ==
    [][\A k \in PendingCalls("connect") :
        (/\ last'.op = "transport.connect" /\ k \notin DOMAIN calls'
         /\ k.i = adapter /\ k.cont.fin \in {"connect", "auto"}) =>
            /\ connected' /\ ~connecting'
            /\ publicKey' = adapter /\ adapter' = adapter
            /\ AdapterPublicKey(St, adapter)' = adapter
            /\ last'.events = <<[i |-> k.i, ev |-> "connect", arg |-> ""]>>
            /\ last'.done = <<[op |-> k.cont.fin, res |-> "ok"]>>]_vars

\* select("a") and connect() without auto-connect, the transport connected.
C13_Witness ==
    /\ last.op = "transport.connect" /\ ~autoConnect /\ name = "a"
    /\ last.done = <<[op |-> "connect", res |-> "ok"]>>
    /\ connected /\ ~connecting /\ publicKey = adapter /\ nops = 2

\* C14: with autoConnect, a step that leaves the provider with another
\* (adapter, ready) pair than before, the adapter set and ready, has called
\* Adapter.connect on that adapter; and when a handshake that the
\* auto-connect effect started fails, the effect's function returns
\* normally, `connecting` is false, the adapter has emitted its `error`
\* event, and onError has received it if that adapter is the selected one.
AutoAttempted ==
    \/ \E k \in DOMAIN calls' :
          k.kind = "connect" /\ k.i = adapter' /\ k.cont.fin = "auto"
    \/ \E x \in DOMAIN last'.done : last'.done[x].op = "auto"
C14_AutoConnect ==
    /\ [][(/\ autoConnect /\ adapter' # 0 /\ ready'
            /\ <<adapter', ready'>> # <<adapter, ready>>) => AutoAttempted]_vars
    /\ [][\A k \in PendingCalls("connect") :
            (/\ k.cont.fin = "auto" /\ k \notin DOMAIN calls'
             /\ last'.settled # <<>> /\ last'.settled[1].res # "ok") =>
                LET r == last'.settled[1] IN
                /\ last'.settled = <<r>> /\ r.kind = "connect" /\ r.i = k.i
                /\ last'.done = <<[op |-> "auto", res |-> "ok"]>>
                /\ ~connecting'
                /\ last'.events = <<[i |-> k.i, ev |-> "error", arg |-> r.res]>>
                /\ k.i = adapter => last'.onError = <<r.res>>]_vars

\* the 10s timeout ends the handshake of an auto-connect.
C14_Witness ==
    /\ last.op = "timeout" /\ autoConnect /\ adapter # 0
    /\ last.done = <<[op |-> "auto", res |-> "ok"]>>
    /\ last.onError = <<"TimeoutError">> /\ ~connecting

\* C15: an adapter's `connecting` flag is true in every state in which a
\* handshake started by its connect() has not settled, and false in every
\* state in which none is in progress.
C15_ConnectingTracksHandshake ==
    \A i \in DOMAIN inst :
        inst[i].connecting <=> (\E k \in PendingCalls("connect") : k.i = i)

\* C16: once a handshake has settled, whichever branch won the race, none of
\* its registrations remains: the `connect` listener is detached, the 10s
\* timeout and the 100ms interval are cleared and the transport's
\* disconnect callback is restored.
C16_NothingRemains == last.left = {}

\* C17: however disconnect() calls and unexpected-disconnect callbacks
\* interleave, the transport's disconnect is invoked at most once per
\* session (a step invokes it only on the live session the adapter holds,
\* with no teardown of that client pending, and the session is neither held
\* nor live afterwards), and in every state in which a teardown is awaited
\* the adapter's session reference is not the client being torn down.
TeardownsOf(b, i, c) ==
    LET ks == {k \in DOMAIN b : k.kind = "disconnect" /\ k.i = i /\ k.c = c}
    IN  IF ks = {} THEN 0 ELSE b[CHOOSE k \in ks : TRUE] + Cardinality(ks) - 1
C17_TeardownOnce ==
    /\ [](\A k \in PendingCalls("disconnect") :
            /\ inst[k.i].wallet # k.c /\ k.c \notin inst[k.i].watch
            /\ TeardownsOf(calls, k.i, k.c) = 1)
    /\ [][\A i \in Insts, c \in Clients :
            TeardownsOf(calls', i, c) > TeardownsOf(calls, i, c) =>
                /\ TeardownsOf(calls, i, c) = 0
                /\ inst[i].wallet = c /\ c \in inst[i].live
                /\ inst'[i].wallet = 0 /\ c \notin inst'[i].live]_vars

\* a second disconnect() arrives while the teardown of the first is awaited.
C17_Witness ==
    /\ last.op = "adapter.disconnect"
    /\ \E x \in DOMAIN last.settled : last.settled[x].res = "nosession"
    /\ PendingCalls("disconnect") # {}

\* C18: the provider listens to the selected adapter only, so every event
\* it hears comes from the adapter selected at that moment; when a call
\* started on a formerly selected adapter before the change settles, the
\* events it emits are heard by nobody, change no field of the provider
\* and nothing reaches onError.
StaleSettle(k) ==
    /\ k.i # adapter /\ k \notin DOMAIN calls'
    /\ k.cont.k \in {"none", "setConnecting", "return"}
    /\ Len(last'.settled) = 1 /\ last'.settled[1].i = k.i
C18_OldAdapterMuted ==
    /\ [](sub \subseteq {adapter} \ {0})
    /\ [](\A x \in DOMAIN last.heard : last.heard[x].i = last.heard[x].cur)
    /\ [][\A k \in DOMAIN calls : StaleSettle(k) =>
                /\ last'.onError = <<>> /\ last'.heard = <<>>
                /\ UNCHANGED <<name, wallet, adapter, ready, disconnecting,
                               connected, autoApprove, publicKey>>]_vars

\* b is selected and a handshake started on a before the change succeeds:
\* a emits `connect`, nobody hears it and the provider stays disconnected.
C18_Witness ==
    /\ last.op = "transport.connect" /\ name = "b" /\ adapter # 0
    /\ last.heard = <<>> /\ ~connected /\ publicKey = 0
    /\ Len(last.events) = 1 /\ last.events[1].ev = "connect"
    /\ last.settled[1].res = "ok"

\* C19: when a client fires _disconnected while the adapter holds a session,
\* the handler is detached from that session, the session reference is
\* cleared and the adapter emits error(DisconnectedError) and then
\* disconnect, each once; when it fires while no session is held (again, or
\* after an explicit disconnect()), the adapter is unchanged and emits
\* nothing.
FiredOn(i) == last'.op = "transport.lost" /\ inst'[i].live # inst[i].live
C19_DisconnectedOnce ==
    [][\A i \in Insts : FiredOn(i) =>
        IF inst[i].wallet # 0
        THEN /\ inst'[i] = [inst[i] EXCEPT !.wallet = 0,
                                           !.watch = @ \ {inst[i].wallet},
                                           !.live = inst'[i].live]
             /\ last'.events =
                    <<[i |-> i, ev |-> "error", arg |-> "DisconnectedError"],
                      [i |-> i, ev |-> "disconnect", arg |-> ""]>>
        ELSE /\ inst'[i] = [inst[i] EXCEPT !.live = inst'[i].live]
             /\ last'.events = <<>>
             /\ UNCHANGED <<calls, connected, publicKey, ready>>]_vars

\* the handler fires a second time, for the other of two sessions.
C19_Witness ==
    /\ last.op = "transport.lost" /\ last.events = <<>>
    /\ inst[1].wallet = 0 /\ inst[1].watch # {}

\* C20: the provider's `connecting` is true in every state in which a
\* connect() of the selected adapter is pending; the completion of a
\* connect() started on a previously selected adapter does not clear it.
C20_ConnectingWhilePending ==
    (\E k \in PendingCalls("connect") :
        k.i = adapter /\ k.cont.fin \in {"connect", "auto"}) => connecting
====
